---- MODULE Spec2Model ----
(***************************************************************************)
(* Model of the frame-label state engine of src/app/visibility_appv3.py:   *)
(* the LabelApp fields, the navigation/range handlers, the default         *)
(* propagation of load_image, get_current_values, persist_all and the      *)
(* hydration of the Label Store from an existing frame_labels.csv.         *)
(*                                                                         *)
(* Conventions.  Text (CSV cells, entry widgets) is a TLA+ string and      *)
(* int(text) is the partial function IntOf; path components are sequences  *)
(* of one-character strings so that sorted(glob(...)) and the regular      *)
(* expression of parse_metadata can be computed.  A handler is one action; *)
(* an exception raised inside a handler ends the handler at that point     *)
(* (Tk reports it and the main loop goes on), keeping the assignments made *)
(* before it.                                                              *)
(***************************************************************************)
EXTENDS Integers, Sequences, FiniteSets, TLC

(* number of structures kept by the model: a prefix of the 12 of the code *)
NStruct == 2

AllStructures ==
    << "LPW_PPW", "B", "VT", "LC_LP", "RC_RP", "PCR",
       "LA_LAF", "RA_RAF", "IAS", "LSE", "LSAF_FVF", "AC_TVF_PC" >>

STRUCTURE_COLUMNS == SubSeq(AllStructures, 1, NStruct)

N == Len(STRUCTURE_COLUMNS)

(* [0] * len(STRUCTURE_COLUMNS) *)
Zeros == [i \in 1..N |-> 0]

(* the values a row of checkboxes can show *)
Vectors == [1..N -> {0, 1}]

(* ------------------------------------------------------------------ text *)

(* int(text): defined on the decimal numerals, a ValueError elsewhere *)
IntOf ==
    ("-1" :> -1) @@ ("0" :> 0) @@ ("1" :> 1) @@ ("2" :> 2) @@ ("3" :> 3) @@
    ("4" :> 4) @@ ("5" :> 5) @@ ("01" :> 1) @@ ("10" :> 10)

IsIntText(t) == t \in DOMAIN IntOf

(* str(n), as csv.writer formats an int cell *)
StrOf(n) ==
    CASE n = -1 -> "-1" [] n = 0 -> "0" [] n = 1 -> "1" [] n = 2 -> "2"
      [] n = 3 -> "3" [] n = 4 -> "4" [] n = 5 -> "5" [] n = 10 -> "10"

(* code points of the characters path components are made of *)
CharCode ==
    ("." :> 46) @@ ("/" :> 47) @@ ("0" :> 48) @@ ("1" :> 49) @@ ("2" :> 50) @@
    ("3" :> 51) @@ ("X" :> 88)

Digit == ("0" :> 0) @@ ("1" :> 1) @@ ("2" :> 2) @@ ("3" :> 3)

(* \d+ : a non-empty run of digits *)
IsDigits(tok) == Len(tok) > 0 /\ \A i \in 1..Len(tok) : tok[i] \in DOMAIN Digit

RECURSIVE DigitsValue(_)
DigitsValue(tok) ==
    IF tok = << >> THEN 0
    ELSE 10 * DigitsValue(SubSeq(tok, 1, Len(tok) - 1)) + Digit[tok[Len(tok)]]

(* ----------------------------------------------------------------- paths *)

(* <folder>/video<video>/swallow<swallow>/frame_<frame>.png *)
Path(v, s, f) == [video |-> v, swallow |-> s, frame |-> f]

SENTINEL == << -1, -1, -1 >>

parse_metadata(path) ==
    IF IsDigits(path.video) /\ IsDigits(path.swallow) /\ IsDigits(path.frame)
    THEN << DigitsValue(path.video), DigitsValue(path.swallow), DigitsValue(path.frame) >>
    ELSE SENTINEL

(* the characters of a path that differ between two paths of one folder *)
PathChars(p) == p.video \o << "/" >> \o p.swallow \o << "/" >> \o p.frame \o << "." >>

RECURSIVE SeqLess(_, _)
SeqLess(a, b) ==
    IF a = << >> THEN b # << >>
    ELSE IF b = << >> THEN FALSE
    ELSE IF a[1] # b[1] THEN CharCode[a[1]] < CharCode[b[1]]
    ELSE SeqLess(Tail(a), Tail(b))

PathLess(p, q) == SeqLess(PathChars(p), PathChars(q))

(* sorted(glob(...)): the paths of a folder in lexical order *)
RECURSIVE SortedPaths(_)
SortedPaths(S) ==
    IF S = {} THEN << >>
    ELSE LET m == CHOOSE p \in S : \A q \in S \ {p} : PathLess(p, q)
         IN  << m >> \o SortedPaths(S \ {m})

(* the dataset folders the file dialog can return; "" is a cancelled dialog *)
FolderFiles ==
    [A |-> { Path(<<"1">>, <<"1">>, <<"1">>), Path(<<"1">>, <<"1">>, <<"2">>) },
     B |-> { Path(<<"X">>, <<"1">>, <<"0", "1">>), Path(<<"X">>, <<"1">>, <<"1">>) },
     E |-> { }]

Folders == DOMAIN FolderFiles

(* ------------------------------------------------------- Baseline Store *)

(* a cell of a pandas DataFrame: a number, NaN (a missing cell) or text *)
Num(n) == [t |-> "num", v |-> n]

NaN == [t |-> "nan", v |-> 0]

Text == [t |-> "str", v |-> 0]

PreloadRow(v, s, sev) == [video |-> v, swallow |-> s, sev |-> sev]

(* the tables pd.read_csv returns for the preload files the user can pick *)
PreloadFiles ==
    [P1 |-> << PreloadRow(Num(1), Num(1), [i \in 1..N |-> IF i = 1 THEN Num(2) ELSE Num(0)]),
               PreloadRow(Num(-1), Num(-1), [i \in 1..N |-> IF i = 1 THEN NaN ELSE Num(4)]),
               PreloadRow(Num(1), Num(1), [i \in 1..N |-> Num(3)]) >>,
     P3 |-> << PreloadRow(Text, Num(1), [i \in 1..N |-> Num(1)]) >>]

(* preload_df = None *)
NoDf == [loaded |-> FALSE, rows |-> << >>]

(* Series.astype(int) raises on text and on NaN *)
AsTypeIntOk(col) == \A i \in 1..Len(col) : col[i].t = "num"

(* the conversions of _load_preload_csv succeed *)
PreloadOk(raw) ==
    /\ AsTypeIntOk([i \in 1..Len(raw) |-> raw[i].video])
    /\ AsTypeIntOk([i \in 1..Len(raw) |-> raw[i].swallow])

(* raw_df[["video", "swallow"] + STRUCTURE_COLUMNS].copy() *)
ReadPreload(raw) ==
    [loaded |-> TRUE,
     rows |-> [i \in 1..Len(raw) |->
                 [video |-> raw[i].video.v, swallow |-> raw[i].swallow.v,
                  sev |-> raw[i].sev]]]

(* the module-level load: preload_df stays None when there is no file or the
   load raises *)
StartupPreloads ==
    { NoDf } \cup { ReadPreload(PreloadFiles[f]) : f \in { g \in DOMAIN PreloadFiles :
                                                            PreloadOk(PreloadFiles[g]) } }

get_swallow_defaults(df, video, swallow) ==
    LET hit == { i \in 1..Len(df.rows) :
                   df.rows[i].video = video /\ df.rows[i].swallow = swallow }
    IN  IF df.loaded /\ hit # {}
        THEN df.rows[CHOOSE i \in hit : \A j \in hit : i <= j].sev
        ELSE [i \in 1..N |-> Num(0)]

(* ----------------------------------------------------------- Label Store *)

(* frame_states: a dict, kept as its items in insertion order *)
Entry(k, st) == [key |-> k, state |-> st]

Keys(store) == { store[i].key : i \in 1..Len(store) }

Has(store, k) == k \in Keys(store)

Get(store, k) == store[CHOOSE i \in 1..Len(store) : store[i].key = k].state

(* an assignment that replaces the dict by the one item *)
Put_Replace(store, k, st) == << [key |-> k, state |-> st] >>

(* frame_states[k] = st : an existing key keeps its place in the dict *)
Put(store, k, st) ==
    IF Has(store, k)
    THEN [i \in 1..Len(store) |-> IF store[i].key = k THEN Entry(k, st) ELSE store[i]]
    ELSE Append(store, Entry(k, st))

(* the order of Python tuples of three ints *)
KeyLess(a, b) ==
    \/ a[1] < b[1]
    \/ a[1] = b[1] /\ a[2] < b[2]
    \/ a[1] = b[1] /\ a[2] = b[2] /\ a[3] < b[3]

(* sorted(self.frame_states.items()) *)
RECURSIVE SortedItems(_)
SortedItems(store) ==
    IF store = << >> THEN << >>
    ELSE LET m == CHOOSE i \in 1..Len(store) :
                    \A j \in 1..Len(store) : j = i \/ KeyLess(store[i].key, store[j].key)
         IN  << store[m] >> \o
             SortedItems([j \in 1..(Len(store) - 1) |-> IF j < m THEN store[j] ELSE store[j + 1]])

(* -------------------------------------------------------------- CSV file *)

(* a file on disk: the rows csv.reader yields, the first one being the header;
   a blank line is the empty row *)
NoFile == [exists |-> FALSE, header |-> << >>, rows |-> << >>]

File(h, rs) == [exists |-> TRUE, header |-> h, rows |-> rs]

(* header of persist_all: video, swallow, frame, then <s>_sev, <s>_vis per structure *)
WriterHeader ==
    << "video", "swallow", "frame" >> \o
    [j \in 1..(2 * N) |->
        IF j % 2 = 1 THEN STRUCTURE_COLUMNS[(j + 1) \div 2] \o "_sev"
        ELSE STRUCTURE_COLUMNS[j \div 2] \o "_vis"]

(* int(defaults[idx]) if pd.notna(defaults[idx]) else 0, on a cell int() accepts *)
SevInt(d) == IF d.t = "num" THEN d.v ELSE 0

(* the row of one Label Store entry can be computed: int() takes every severity
   and checkbox_state has an element for every structure *)
RowOk(e, df) ==
    LET defaults == get_swallow_defaults(df, e.key[1], e.key[2])
    IN  \A idx \in 1..N : defaults[idx].t # "str" /\ idx <= Len(e.state)

(* a writer that puts the severity into the <s>_vis cell as well *)
WriterRow_SevTwice(e, df) ==
    LET defaults == get_swallow_defaults(df, e.key[1], e.key[2])
    IN  << StrOf(e.key[1]), StrOf(e.key[2]), StrOf(e.key[3]) >> \o
        [j \in 1..(2 * N) |-> StrOf(SevInt(defaults[(j + 1) \div 2]))]

WriterRow(e, df) ==
    LET defaults == get_swallow_defaults(df, e.key[1], e.key[2])
    IN  << StrOf(e.key[1]), StrOf(e.key[2]), StrOf(e.key[3]) >> \o
        [j \in 1..(2 * N) |->
            IF j % 2 = 1 THEN StrOf(SevInt(defaults[(j + 1) \div 2]))
            ELSE StrOf(IF e.state[j \div 2] = 1 THEN 1 ELSE 0)]

(* the rows written before the first row whose computation raises *)
RECURSIVE WrittenRows(_, _)
WrittenRows(items, df) ==
    IF items = << >> \/ ~RowOk(items[1], df) THEN << >>
    ELSE << WriterRow(items[1], df) >> \o WrittenRows(Tail(items), df)

(* persist_all with output_csv set: open(..., "w") truncates, the header is
   written, then the rows of the sorted items until one raises; closing the
   file flushes what was written *)
persist_all(store, df) ==
    LET items == SortedItems(store)
    IN  [file |-> File(WriterHeader, WrittenRows(items, df)),
         raised |-> \E i \in 1..Len(items) : ~RowOk(items[i], df)]

(* ------------------------------------------------------------- hydration *)

Cell(row, k) == row[k + 1]

InHeader(header, name) == \E i \in 1..Len(header) : header[i] = name

(* NEW schema branch: header.index(<s>_vis) must succeed for every structure,
   then the cells at base = 3 + 2 * i and base + 1 are converted with int() *)
VisState(header, row) ==
    IF \A i \in 1..N :
          /\ InHeader(header, STRUCTURE_COLUMNS[i] \o "_vis")
          /\ Len(row) >= 3 + 2 * i
          /\ IsIntText(Cell(row, 3 + 2 * (i - 1)))
          /\ IsIntText(Cell(row, 3 + 2 * (i - 1) + 1))
    THEN [ok |-> TRUE,
          state |-> [i \in 1..N |->
                       IF IntOf[Cell(row, 3 + 2 * (i - 1) + 1)] = 1 THEN 1 ELSE 0]]
    ELSE [ok |-> FALSE, state |-> << >>]

(* the OLD schema branch reading the <s>_overridden cell of each pair *)
OverriddenState_ReadsFlag(row) ==
    IF \A i \in 1..N :
          /\ Len(row) >= 3 + 2 * i
          /\ IsIntText(Cell(row, 3 + 2 * (i - 1) + 1))
    THEN [ok |-> TRUE,
          state |-> [i \in 1..N |->
                       IF IntOf[Cell(row, 3 + 2 * (i - 1) + 1)] = 1 THEN 1 ELSE 0]]
    ELSE [ok |-> FALSE, state |-> << >>]

(* OLD schema branch: ptr = 3, 5, ...; int(row[ptr]) *)
OverriddenState(row) ==
    IF \A i \in 1..N :
          /\ Len(row) >= 3 + 2 * (i - 1) + 1
          /\ IsIntText(Cell(row, 3 + 2 * (i - 1)))
    THEN [ok |-> TRUE,
          state |-> [i \in 1..N |->
                       IF IntOf[Cell(row, 3 + 2 * (i - 1))] = 1 THEN 1 ELSE 0]]
    ELSE [ok |-> FALSE, state |-> << >>]

(* VERY OLD schema branch: int(row[3 + i]), 0 on any exception *)
ColumnState(row) ==
    [ok |-> TRUE,
     state |-> [i \in 1..N |->
                  IF /\ Len(row) >= 3 + i
                     /\ IsIntText(Cell(row, 3 + i - 1))
                     /\ IntOf[Cell(row, 3 + i - 1)] = 1
                  THEN 1 ELSE 0]]

(* checkbox_state of one row of an existing CSV; ok = FALSE when an exception
   other than the ValueError of the key cells leaves the row loop *)
RowState(header, row) ==
    IF header = << >> THEN [ok |-> TRUE, state |-> << >>]
    ELSE IF \E i \in 1..N : InHeader(header, STRUCTURE_COLUMNS[i] \o "_vis")
    THEN VisState(header, row)
    ELSE IF \E i \in 1..N : InHeader(header, STRUCTURE_COLUMNS[i] \o "_overridden")
    THEN OverriddenState(row)
    ELSE ColumnState(row)

(* the row loop of _load_existing_csv from row number r on: a row whose key
   cells are not integers is skipped, any other exception ends the load with
   the entries made so far *)
RECURSIVE LoadRows(_, _, _, _)
LoadRows(header, rows, r, store) ==
    IF r > Len(rows) THEN store
    ELSE LET row == rows[r]
             short == \/ Len(row) = 0
                      \/ Len(row) = 1 /\ IsIntText(row[1])
                      \/ Len(row) = 2 /\ IsIntText(row[1]) /\ IsIntText(row[2])
         IN  IF short THEN store
             ELSE IF ~(IsIntText(row[1]) /\ IsIntText(row[2]) /\ IsIntText(row[3]))
             THEN LoadRows(header, rows, r + 1, store)
             ELSE LET rs == RowState(header, row)
                      key == << IntOf[row[1]], IntOf[row[2]], IntOf[row[3]] >>
                  IN  IF rs.ok THEN LoadRows(header, rows, r + 1, Put(store, key, rs.state))
                      ELSE store

(* self.frame_states after _load_existing_csv, starting from the empty dict *)
load_existing_csv(file) == LoadRows(file.header, file.rows, 1, << >>)

(* ------------------------------------------------------------ conditions *)

(* in_range_index without the lower end of the window *)
in_range_index_NoLower(idx, rmin, rmax) == idx <= rmax

(* in_range_index *)
in_range_index(idx, rmin, rmax) == rmin <= idx /\ idx <= rmax

(* apply_range accepting an end past the last frame *)
RangeValid_NoUpper(start, end, tot) == 0 <= start /\ start <= end

(* apply_range: 0 <= start <= end < self.total *)
RangeValid(start, end, tot) == 0 <= start /\ start <= end /\ end < tot

(* skip_to_index: not (val < 0 or val >= self.total) *)
InBounds(val, tot) == ~(val < 0 \/ val >= tot)

(* ----------------------------------------------------- display and read *)

Min(a, b) == IF a < b THEN a ELSE b

Max(a, b) == IF a > b THEN a ELSE b

KeyAt(paths, idx) == parse_metadata(paths[idx + 1])

(* load_image without the carry-forward from the preceding frame *)
DefaultState_NoCarry(paths, store, idx) ==
    IF Has(store, KeyAt(paths, idx)) THEN Get(store, KeyAt(paths, idx)) ELSE Zeros

(* checkbox_state chosen by load_image for the frame at position idx *)
DefaultState(paths, store, idx) ==
    IF Has(store, KeyAt(paths, idx)) THEN Get(store, KeyAt(paths, idx))
    ELSE IF idx > 0
    THEN IF Has(store, KeyAt(paths, idx - 1)) THEN Get(store, KeyAt(paths, idx - 1))
         ELSE Zeros
    ELSE Zeros

(* load_image: the index after the range clamp and the checkboxes after the
   loop of set() calls; the loop raises IndexError at the first structure the
   chosen checkbox_state has no element for, leaving the later boxes as they
   were.  With index < total the "All images labeled" branch is not taken. *)
load_image(idx, tot, rmin, rmax, paths, store, boxes) ==
    IF tot = 0 \/ idx >= tot THEN [index |-> idx, boxes |-> boxes, raised |-> FALSE]
    ELSE LET i2 == IF in_range_index(idx, rmin, rmax) THEN idx
                   ELSE Max(rmin, Min(idx, rmax))
             cs == DefaultState(paths, store, i2)
         IN  [index |-> i2,
              boxes |-> [i \in 1..N |-> IF i <= Len(cs) THEN cs[i] ELSE boxes[i]],
              raised |-> Len(cs) < N]

(* overridden = 1 if vis != defaults[i] else 0; NaN and text differ from any int *)
Overridden(vis, d) == IF d.t = "num" THEN (IF vis # d.v THEN 1 ELSE 0) ELSE 1

(* get_current_values writing the entry of the sentinel key as well *)
get_current_values_AlsoSentinel(idx, paths, df, boxes, store) ==
    [key |-> KeyAt(paths, idx), vis_vals |-> boxes, overridden_flags |-> Zeros,
     store |-> Put(Put(store, KeyAt(paths, idx), boxes), SENTINEL, boxes)]

(* get_current_values forgetting to write the Label Store *)
get_current_values_NoStore(idx, paths, df, boxes, store) ==
    [key |-> KeyAt(paths, idx), vis_vals |-> boxes, overridden_flags |-> Zeros,
     store |-> store]

(* get_current_values: the values returned and self.frame_states afterwards *)
get_current_values(idx, paths, df, boxes, store) ==
    LET key == KeyAt(paths, idx)
        defaults == get_swallow_defaults(df, key[1], key[2])
        vis_vals == [i \in 1..N |-> IF boxes[i] = 1 THEN 1 ELSE 0]
    IN  [key |-> key,
         vis_vals |-> vis_vals,
         overridden_flags |-> [i \in 1..N |-> Overridden(vis_vals[i], defaults[i])],
         store |-> Put(store, key, boxes)]

(* ------------------------------------------------------------------ state *)

VARIABLES
    image_root,     \* the opened folder, "None" before
    image_paths,    \* sorted paths of the frames
    output_csv,     \* folder whose frame_labels.csv is written, "None" before
    index,          \* 0-based position of the displayed frame
    total,          \* len(image_paths)
    range_min,
    range_max,
    checkbox_vars,  \* the N IntVars of the checkboxes
    frame_states,   \* the Label Store
    preload_df,     \* the Baseline Store
    disk,           \* content of <image_root>/frame_labels.csv
    backup,         \* the copy of frame_labels.csv attempted by the last folder open
    last,           \* how the handler that ran last ended, when it is observed
    watch,          \* the handlers whose outcome is observed in last
    arg,            \* the input handed to the CSV writer / reader run on their own
    result          \* what the CSV writer / reader made of arg

vars ==
    << image_root, image_paths, output_csv, index, total, range_min, range_max,
       checkbox_vars, frame_states, preload_df, disk, backup, last, watch, arg, result >>

(* a frame_labels.csv found in a folder opened for the first time *)
BlankHeaderFile == File(<< >>, << << "1", "1", "1", "1", "1" >> >>)

ExistingFiles == [A |-> { NoFile, BlankHeaderFile }, B |-> { NoFile }, E |-> { NoFile }]

(* what can be typed into the "Go to #" entry *)
EntryTexts == { "0", "1", "2", "3", "x" }

(* what can be typed into the two range entries *)
RangeTexts ==
    ({ "0", "1", "2", "3" } \X { "0", "1", "2", "3" }) \cup { << "x", "1" >>, << "1", "x" >> }

(* no folder has been opened: no copy was attempted *)
NoBackup == [existed |-> FALSE, attempted |-> FALSE, copied |-> FALSE, content |-> NoFile]

(* open_folder lines 259-266 never calling shutil.copy2 *)
Backup_Never(file, copied) ==
    [existed |-> file.exists, attempted |-> FALSE, copied |-> FALSE, content |-> NoFile]

(* open_folder lines 259-266: os.path.exists(output_csv), then shutil.copy2 inside
   try/except; copied tells whether the copy succeeded *)
Backup(file, copied) ==
    [existed |-> file.exists,
     attempted |-> file.exists,
     copied |-> file.exists /\ copied,
     content |-> IF file.exists THEN file ELSE NoFile]

(* the CSV writer and reader are not run on their own *)
NoArg == [case |-> "none", store |-> << >>, df |-> NoDf, file |-> NoFile]

NoResult == [stage |-> "none", file |-> NoFile, store |-> << >>]

Idle == arg = NoArg /\ result = NoResult

(* LabelApp.__init__ up to the call of open_folder(initial_prompt=True) *)
Fields ==
    /\ image_root = "None"
    /\ image_paths = << >>
    /\ output_csv = "None"
    /\ index = 0
    /\ total = 0
    /\ range_min = 0
    /\ range_max = 0
    /\ checkbox_vars = Zeros
    /\ frame_states = << >>
    /\ preload_df \in StartupPreloads
    /\ disk = NoFile
    /\ backup = NoBackup
    /\ last = "init"

Init == Fields /\ Idle /\ watch = { }

(* the outcomes of the handlers that reached load_image with a frame to show *)
DisplayOutcomes ==
    { "opened", "open_raised", "next_moved", "next_moved_raised", "prev_moved",
      "prev_moved_raised", "skip_moved", "skip_raised", "range_applied", "range_raised",
      "range_cleared", "clear_raised" }

(* last names the outcome of a handler of an observed family; with "display"
   observed it is "shown" after a handler that displayed a frame; "run" otherwise *)
Outcome(family, label) ==
    IF family \in watch THEN label
    ELSE IF /\ "display" \in watch
            /\ label \in DisplayOutcomes
            /\ (family = "open" \/ total > 0)
         THEN "shown"
    ELSE "run"

(* the main loop is running: the constructor returned without an exception *)
Running == last \notin { "init", "crashed" }

(* --------------------------------------------------------------- handlers *)

(* open_folder: the dialog returns folder ("" when cancelled); existing is the
   frame_labels.csv a folder other than the open one holds *)
open_folder(folder, existing) ==
    /\ last # "crashed"
    /\ IF folder = ""
       THEN /\ last' = Outcome("open", "open_cancelled")
            /\ UNCHANGED << image_root, image_paths, output_csv, index, total, range_min,
                            range_max, checkbox_vars, frame_states, preload_df, disk,
                            backup >>
       ELSE LET paths == SortedPaths(FolderFiles[folder])
                file == IF folder = image_root THEN disk ELSE existing
                store == IF file.exists THEN load_existing_csv(file) ELSE << >>
                shown == load_image(0, Len(paths), 0, Len(paths) - 1, paths, store,
                                    checkbox_vars)
            IN  IF Len(paths) = 0
                THEN /\ last' = Outcome("open", "open_no_images")
                     /\ UNCHANGED << image_root, image_paths, output_csv, index, total,
                                     range_min, range_max, checkbox_vars, frame_states,
                                     preload_df, disk, backup >>
                ELSE /\ image_root' = folder
                     /\ image_paths' = paths
                     /\ output_csv' = folder
                     /\ total' = Len(paths)
                     /\ range_min' = 0
                     /\ range_max' = Len(paths) - 1
                     /\ frame_states' = store
                     /\ disk' = file
                     /\ backup' \in IF "backup" \in watch
                                     THEN { Backup(file, copied) : copied \in BOOLEAN }
                                     ELSE { backup }
                     /\ index' = shown.index
                     /\ checkbox_vars' = shown.boxes
                     /\ last' = IF ~shown.raised THEN Outcome("open", "opened")
                                ELSE IF last = "init" THEN "crashed" ELSE Outcome("open", "open_raised")
                     /\ UNCHANGED preload_df
    /\ UNCHANGED << watch, arg, result >>

(* a click on a checkbox or its hotkey (_hotkey_toggle) *)
toggle(i) ==
    /\ Running
    /\ checkbox_vars' = [checkbox_vars EXCEPT ![i] = IF @ = 1 THEN 0 ELSE 1]
    /\ last' = Outcome("edit", "edit")
    /\ UNCHANGED << image_root, image_paths, output_csv, index, total, range_min,
                    range_max, frame_states, preload_df, disk >>
    /\ UNCHANGED << watch, arg, result, backup >>

check_all ==
    /\ Running
    /\ checkbox_vars' = [i \in 1..N |-> 1]
    /\ last' = Outcome("edit", "edit")
    /\ UNCHANGED << image_root, image_paths, output_csv, index, total, range_min,
                    range_max, frame_states, preload_df, disk >>
    /\ UNCHANGED << watch, arg, result, backup >>

uncheck_all ==
    /\ Running
    /\ checkbox_vars' = [i \in 1..N |-> 0]
    /\ last' = Outcome("edit", "edit")
    /\ UNCHANGED << image_root, image_paths, output_csv, index, total, range_min,
                    range_max, frame_states, preload_df, disk >>
    /\ UNCHANGED << watch, arg, result, backup >>

save_and_next ==
    /\ Running
    /\ IF total = 0
       THEN /\ last' = Outcome("next", "next_empty")
            /\ UNCHANGED << index, checkbox_vars, frame_states, disk >>
       ELSE LET read == get_current_values(index, image_paths, preload_df, checkbox_vars,
                                           frame_states)
                written == persist_all(read.store, preload_df)
                shown == load_image(index + 1, total, range_min, range_max, image_paths,
                                    read.store, checkbox_vars)
            IN  /\ frame_states' = read.store
                /\ disk' = written.file
                /\ IF written.raised
                   THEN /\ last' = Outcome("next", "next_raised")
                        /\ UNCHANGED << index, checkbox_vars >>
                   ELSE IF index + 1 > range_max
                   THEN /\ last' = Outcome("next", "next_stay")
                        /\ UNCHANGED << index, checkbox_vars >>
                   ELSE /\ index' = shown.index
                        /\ checkbox_vars' = shown.boxes
                        /\ last' = IF shown.raised THEN Outcome("next", "next_moved_raised") ELSE Outcome("next", "next_moved")
    /\ UNCHANGED << image_root, image_paths, output_csv, total, range_min, range_max,
                    preload_df >>
    /\ UNCHANGED << watch, arg, result, backup >>

prev_image ==
    /\ Running
    /\ IF total = 0
       THEN /\ last' = Outcome("prev", "prev_empty")
            /\ UNCHANGED << index, checkbox_vars, frame_states, disk >>
       ELSE IF index <= range_min
       THEN /\ last' = Outcome("prev", "prev_noop")
            /\ UNCHANGED << index, checkbox_vars, frame_states, disk >>
       ELSE LET read == get_current_values(index, image_paths, preload_df, checkbox_vars,
                                           frame_states)
                written == persist_all(read.store, preload_df)
                shown == load_image(index - 1, total, range_min, range_max, image_paths,
                                    read.store, checkbox_vars)
            IN  /\ frame_states' = read.store
                /\ disk' = written.file
                /\ IF written.raised
                   THEN /\ last' = Outcome("prev", "prev_raised")
                        /\ UNCHANGED << index, checkbox_vars >>
                   ELSE IF index - 1 < range_min
                   THEN /\ last' = Outcome("prev", "prev_stay")
                        /\ UNCHANGED << index, checkbox_vars >>
                   ELSE /\ index' = shown.index
                        /\ checkbox_vars' = shown.boxes
                        /\ last' = IF shown.raised THEN Outcome("prev", "prev_moved_raised") ELSE Outcome("prev", "prev_moved")
    /\ UNCHANGED << image_root, image_paths, output_csv, total, range_min, range_max,
                    preload_df >>
    /\ UNCHANGED << watch, arg, result, backup >>

(* skip_to_index: text is the content of the "Go to #" entry *)
skip_to_index(text) ==
    /\ Running
    /\ IF ~IsIntText(text)
       THEN /\ last' = Outcome("skip", "skip_invalid")
            /\ UNCHANGED << index, checkbox_vars >>
       ELSE LET val == IntOf[text] - 1
                shown == load_image(val, total, range_min, range_max, image_paths,
                                    frame_states, checkbox_vars)
            IN  IF ~InBounds(val, total)
                THEN /\ last' = Outcome("skip", "skip_out_of_bounds")
                     /\ UNCHANGED << index, checkbox_vars >>
                ELSE IF ~in_range_index(val, range_min, range_max)
                THEN /\ last' = Outcome("skip", "skip_out_of_range")
                     /\ UNCHANGED << index, checkbox_vars >>
                ELSE /\ index' = shown.index
                     /\ checkbox_vars' = shown.boxes
                     /\ last' = IF shown.raised THEN Outcome("skip", "skip_raised") ELSE Outcome("skip", "skip_moved")
    /\ UNCHANGED << image_root, image_paths, output_csv, total, range_min, range_max,
                    frame_states, preload_df, disk >>
    /\ UNCHANGED << watch, arg, result, backup >>

(* apply_range: the contents of the two range entries *)
apply_range(startText, endText) ==
    /\ Running
    /\ IF ~IsIntText(startText) \/ ~IsIntText(endText)
       THEN /\ last' = Outcome("range", "range_invalid")
            /\ UNCHANGED << index, range_min, range_max, checkbox_vars >>
       ELSE LET start == IntOf[startText] - 1
                end == IntOf[endText] - 1
                clamped == IF index < start THEN start
                           ELSE IF index > end THEN end ELSE index
                shown == load_image(clamped, total, start, end, image_paths, frame_states,
                                    checkbox_vars)
            IN  IF ~RangeValid(start, end, total)
                THEN /\ last' = Outcome("range", "range_rejected")
                     /\ UNCHANGED << index, range_min, range_max, checkbox_vars >>
                ELSE /\ range_min' = start
                     /\ range_max' = end
                     /\ index' = shown.index
                     /\ checkbox_vars' = shown.boxes
                     /\ last' = IF shown.raised THEN Outcome("range", "range_raised") ELSE Outcome("range", "range_applied")
    /\ UNCHANGED << image_root, image_paths, output_csv, total, frame_states, preload_df,
                    disk >>
    /\ UNCHANGED << watch, arg, result, backup >>

clear_range ==
    /\ Running
    /\ LET shown == load_image(index, total, 0, total - 1, image_paths, frame_states,
                               checkbox_vars)
       IN  /\ range_min' = 0
           /\ range_max' = total - 1
           /\ index' = shown.index
           /\ checkbox_vars' = shown.boxes
           /\ last' = IF shown.raised THEN Outcome("clear", "clear_raised") ELSE Outcome("clear", "range_cleared")
    /\ UNCHANGED << image_root, image_paths, output_csv, total, frame_states, preload_df,
                    disk >>
    /\ UNCHANGED << watch, arg, result, backup >>

(* File > Save: persist_all alone *)
save ==
    /\ Running
    /\ IF output_csv = "None"
       THEN /\ last' = Outcome("save", "save_no_folder")
            /\ UNCHANGED disk
       ELSE LET written == persist_all(frame_states, preload_df)
            IN  /\ disk' = written.file
                /\ last' = IF written.raised THEN Outcome("save", "save_raised") ELSE Outcome("save", "saved")
    /\ UNCHANGED << image_root, image_paths, output_csv, index, total, range_min,
                    range_max, checkbox_vars, frame_states, preload_df >>
    /\ UNCHANGED << watch, arg, result, backup >>

(* select_preload_csv: the dialog returns a preload file ("" when cancelled) *)
select_preload_csv(path) ==
    /\ Running
    /\ IF path = ""
       THEN /\ last' = Outcome("preload", "preload_cancelled")
            /\ UNCHANGED preload_df
       ELSE IF PreloadOk(PreloadFiles[path])
       THEN /\ preload_df' = ReadPreload(PreloadFiles[path])
            /\ last' = Outcome("preload", "preload_loaded")
       ELSE /\ last' = Outcome("preload", "preload_failed")
            /\ UNCHANGED preload_df
    /\ UNCHANGED << image_root, image_paths, output_csv, index, total, range_min,
                    range_max, checkbox_vars, frame_states, disk >>
    /\ UNCHANGED << watch, arg, result, backup >>

Next ==
    \/ open_folder("", NoFile)
    \/ \E folder \in Folders :
          \E existing \in IF folder = image_root THEN { disk } ELSE ExistingFiles[folder] :
             open_folder(folder, existing)
    \/ \E i \in 1..N : toggle(i)
    \/ check_all
    \/ uncheck_all
    \/ save_and_next
    \/ prev_image
    \/ \E text \in EntryTexts : skip_to_index(text)
    \/ \E texts \in RangeTexts : apply_range(texts[1], texts[2])
    \/ clear_range
    \/ save
    \/ \E path \in DOMAIN PreloadFiles \cup { "" } : select_preload_csv(path)

Spec == Init /\ [][Next]_vars

(* the same program with the outcomes of one family of handlers observed *)
InitNext == Fields /\ Idle /\ watch = { "next" }

SpecNext == InitNext /\ [][Next]_vars

InitPrev == Fields /\ Idle /\ watch = { "prev" }

SpecPrev == InitPrev /\ [][Next]_vars

InitSkip == Fields /\ Idle /\ watch = { "skip" }

SpecSkip == InitSkip /\ [][Next]_vars

InitRange == Fields /\ Idle /\ watch = { "range" }

SpecRange == InitRange /\ [][Next]_vars

InitSave == Fields /\ Idle /\ watch = { "save" }

SpecSave == InitSave /\ [][Next]_vars

(* every handler that displays a frame observed *)
InitShow == Fields /\ Idle /\ watch = { "display" }

SpecShow == InitShow /\ [][Next]_vars

InitPreload == Fields /\ Idle /\ watch = { "preload" }

SpecPreload == InitPreload /\ [][Next]_vars

(* the copy attempted by open_folder recorded, under the handlers that open a
   folder, toggle the first structure and write the CSV *)
InitBackup == Fields /\ Idle /\ watch = { "backup" }

NextBackup ==
    \/ open_folder("", NoFile)
    \/ \E folder \in Folders :
          \E existing \in IF folder = image_root THEN { disk } ELSE ExistingFiles[folder] :
             open_folder(folder, existing)
    \/ toggle(1)
    \/ save_and_next
    \/ prev_image
    \/ save

SpecBackup == InitBackup /\ [][NextBackup]_vars

(* ------------------------------------- the CSV writer and reader on their own *)

(* largest number of Label Store entries, and of rows of a file, handed over *)
MaxEntries == 2

MaxRows == 3

(* keys of label entries: two frames of one swallow and the sentinel *)
KeyPool == { << 1, 1, 1 >>, << 1, 1, 2 >>, SENTINEL }

(* the Label Stores of at most max entries over KeyPool *)
StorePool(max) ==
    UNION { { q \in [1..n -> { Entry(k, v) : k \in KeyPool, v \in Vectors }] :
                \A i, j \in 1..n : i # j => q[i].key # q[j].key } : n \in 0..max }

KeyCells(k) == << StrOf(k[1]), StrOf(k[2]), StrOf(k[3]) >>

(* the headers of the three generations of frame_labels.csv *)
SchemaHeader(schema) ==
    << "video", "swallow", "frame" >> \o
    (CASE schema = "vis" -> SubSeq(WriterHeader, 4, 3 + 2 * N)
       [] schema = "overridden" ->
             [j \in 1..(2 * N) |->
                 IF j % 2 = 1 THEN STRUCTURE_COLUMNS[(j + 1) \div 2] \o "_val"
                 ELSE STRUCTURE_COLUMNS[j \div 2] \o "_overridden"]
       [] schema = "column" -> STRUCTURE_COLUMNS)

(* the row of entry e in a schema; other is the text of the cells that do not
   carry the visibility (<s>_sev, <s>_overridden) *)
SchemaRow(schema, e, other) ==
    KeyCells(e.key) \o
    (CASE schema = "vis" ->
             [j \in 1..(2 * N) |-> IF j % 2 = 1 THEN other ELSE StrOf(e.state[j \div 2])]
       [] schema = "overridden" ->
             [j \in 1..(2 * N) |-> IF j % 2 = 1 THEN StrOf(e.state[(j + 1) \div 2]) ELSE other]
       [] schema = "column" -> [j \in 1..N |-> StrOf(e.state[j])])

SchemaFile(schema, content, other) ==
    File(SchemaHeader(schema),
         [i \in 1..Len(content) |-> SchemaRow(schema, content[i], other)])

Schemas == { "vis", "overridden", "column" }

(* headers naming every <s>_sev and <s>_vis column, in three column orders:
   as written, <s>_vis before <s>_sev, and the structures in reverse *)
HeaderOrders == { "written", "vis_first", "reversed" }

OrderedColumns(order) ==
    CASE order = "written" -> SubSeq(WriterHeader, 4, 3 + 2 * N)
      [] order = "vis_first" ->
            [j \in 1..(2 * N) |->
                IF j % 2 = 1 THEN STRUCTURE_COLUMNS[(j + 1) \div 2] \o "_vis"
                ELSE STRUCTURE_COLUMNS[j \div 2] \o "_sev"]
      [] order = "reversed" ->
            [j \in 1..(2 * N) |->
                IF j % 2 = 1 THEN STRUCTURE_COLUMNS[N + 1 - (j + 1) \div 2] \o "_sev"
                ELSE STRUCTURE_COLUMNS[N + 1 - j \div 2] \o "_vis"]

(* the structure index a column name belongs to *)
StructureOf(name) ==
    CHOOSE i \in 1..N : name \in { STRUCTURE_COLUMNS[i] \o "_vis", STRUCTURE_COLUMNS[i] \o "_sev" }

(* a file whose cells under <s>_vis carry content and whose <s>_sev cells are sev *)
OrderedFile(order, content, sev) ==
    LET cols == OrderedColumns(order)
    IN  File(<< "video", "swallow", "frame" >> \o cols,
             [i \in 1..Len(content) |->
                 KeyCells(content[i].key) \o
                 [j \in 1..(2 * N) |->
                     IF cols[j] = STRUCTURE_COLUMNS[StructureOf(cols[j])] \o "_vis"
                     THEN StrOf(content[i].state[StructureOf(cols[j])])
                     ELSE sev]])

(* rows a damaged file can hold: two well-formed rows, a blank line, a row cut
   after two cells, a row whose key is text and a row whose value cells are text *)
RowPool(schema) ==
    { SchemaRow(schema, Entry(<< 1, 1, 1 >>, [i \in 1..N |-> 1]), "0"),
      SchemaRow(schema, Entry(<< 1, 1, 2 >>, [i \in 1..N |-> IF i = 1 THEN 1 ELSE 0]), "0"),
      << >>,
      << "1", "1" >>,
      << "x", "1", "1" >> \o [j \in 1..N |-> "1"],
      << "1", "1", "3" >> \o [j \in 1..(2 * N) |-> "x"] }

RowFiles(max) ==
    UNION { { File(SchemaHeader(schema), rows) : rows \in [1..n -> RowPool(schema)] } :
              schema \in { "vis", "column" }, n \in 1..max }

Input(case, store, df, file) == [case |-> case, store |-> store, df |-> df, file |-> file]

(* what the writer and the reader are run on: stores to write and read back,
   files of the three schemas with the cells beside the visibility all 1,
   files of one row under reordered headers, and damaged files *)
CsvInputs(maxEntries, maxRows) ==
    { Input("store", st, df, NoFile) : st \in StorePool(maxEntries), df \in StartupPreloads }
    \cup { Input("schema", st, NoDf, SchemaFile(schema, st, "1")) :
              st \in StorePool(maxEntries), schema \in Schemas }
    \cup { Input("header", st, NoDf, OrderedFile(order, st, sev)) :
              st \in StorePool(1), order \in HeaderOrders, sev \in { "0", "1", "x" } }
    \cup { Input("rows", << >>, NoDf, file) : file \in RowFiles(maxRows) }

fields ==
    << image_root, image_paths, output_csv, index, total, range_min, range_max,
       checkbox_vars, frame_states, preload_df, disk, backup, last, watch >>

(* persist_all run on the Label Store and Baseline Store of arg *)
write_csv ==
    /\ arg.case = "store"
    /\ result.stage = "none"
    /\ result' = [stage |-> "written", file |-> persist_all(arg.store, arg.df).file,
                  store |-> << >>]
    /\ UNCHANGED << fields, arg >>

(* _load_existing_csv run on the file just written, or on the file of arg *)
read_csv ==
    /\ \/ arg.case = "store" /\ result.stage = "written"
       \/ arg.case \in { "schema", "header", "rows" } /\ result.stage = "none"
    /\ LET file == IF arg.case = "store" THEN result.file ELSE arg.file
       IN  result' = [stage |-> "read", file |-> file, store |-> load_existing_csv(file)]
    /\ UNCHANGED << fields, arg >>

InitCsv ==
    /\ Fields
    /\ preload_df = NoDf
    /\ watch = { }
    /\ arg \in CsvInputs(MaxEntries, MaxRows)
    /\ result = NoResult

NextCsv == write_csv \/ read_csv

SpecCsv == InitCsv /\ [][NextCsv]_vars

(* ================================================================ claims *)

(* the baseline severity of structure s for (video, swallow), taken as 0 when
   the swallow is absent from the Baseline Store or the cell is not a number *)
BaselineSeverity(df, video, swallow, s) ==
    LET d == get_swallow_defaults(df, video, swallow)[s]
    IN  IF d.t = "num" THEN d.v ELSE 0

(* a CSV row carries the key of entry e, its vector in the _vis cells and the
   baseline severities in the _sev cells *)
RowShows(row, e, df) ==
    /\ Len(row) = 3 + 2 * N
    /\ Len(e.state) = N
    /\ \A c \in 1..Len(row) : IsIntText(row[c])
    /\ << IntOf[row[1]], IntOf[row[2]], IntOf[row[3]] >> = e.key
    /\ \A s \in 1..N :
          /\ IntOf[row[3 + 2 * s]] = e.state[s]
          /\ IntOf[row[2 + 2 * s]] = BaselineSeverity(df, e.key[1], e.key[2], s)

(* the file holds exactly one row per entry of the store *)
CsvReflects(file, store, df) ==
    /\ file.exists
    /\ Len(file.rows) = Len(store)
    /\ \A i \in 1..Len(store) : \E j \in 1..Len(file.rows) : RowShows(file.rows[j], store[i], df)

(* C1: once a folder with at least one frame has been opened, every reachable
   state satisfies 0 <= range_min <= index <= range_max <= total - 1 *)
C1_IndexInWindow ==
    image_root # "None" =>
        /\ 0 <= range_min
        /\ range_min <= index
        /\ index <= range_max
        /\ range_max <= total - 1

(* a narrowed window that clamped the index, with labels stored *)
C1_Witness ==
    /\ image_root # "None"
    /\ range_min = 1 /\ index = 1 /\ range_max = 1
    /\ frame_states # << >>

(* C2: an advance or retreat that moves the index has stored the displayed
   toggles under the key of the frame being left, has rewritten the CSV with
   one row per Label Store entry (its vector and the baseline severities), and
   has moved the index by exactly one *)
C2_StepStoresWritesMoves ==
    [][ ((save_and_next \/ prev_image) /\ index' # index) =>
           /\ Has(frame_states', KeyAt(image_paths, index))
           /\ Get(frame_states', KeyAt(image_paths, index)) = checkbox_vars
           /\ CsvReflects(disk', frame_states', preload_df)
           /\ (save_and_next => index' = index + 1)
           /\ (prev_image => index' = index - 1) ]_vars

(* an advance that moved, leaving two entries stored and written *)
C2_Witness ==
    /\ last = "next_moved"
    /\ index = 1
    /\ Len(frame_states) = 2
    /\ preload_df.loaded
    /\ CsvReflects(disk, frame_states, preload_df)

(* the keys of the rows of a file, as integers *)
RowKey(row) == << IntOf[row[1]], IntOf[row[2]], IntOf[row[3]] >>

(* all orders in which the same entries can have been inserted *)
Orders(store) ==
    { q \in [1..Len(store) -> { store[i] : i \in 1..Len(store) }] :
        \A i \in 1..Len(store) : \E j \in 1..Len(store) : q[j] = store[i] }

(* C3: the rows the CSV Writer writes are in strictly ascending order of
   (video, swallow, frame), one row per Label Store entry, and the content does
   not depend on the order in which the entries were inserted *)
C3_SortedOnePerEntry ==
    last \in { "saved", "save_raised" } =>
        /\ \A i \in 1..(Len(disk.rows) - 1) :
              KeyLess(RowKey(disk.rows[i]), RowKey(disk.rows[i + 1]))
        /\ CsvReflects(disk, frame_states, preload_df)
        /\ \A q \in Orders(frame_states) : persist_all(q, preload_df).file = disk

(* the vector the claim names for the frame at position p *)
C4_Resolved(store, paths, p) ==
    IF Has(store, KeyAt(paths, p)) THEN Get(store, KeyAt(paths, p))
    ELSE IF p > 0 /\ Has(store, KeyAt(paths, p - 1)) THEN Get(store, KeyAt(paths, p - 1))
    ELSE [s \in 1..N |-> 0]

(* C4: whenever a handler has displayed the frame at position index, the
   checkboxes show the frame's stored vector, else the stored vector of the
   preceding frame, else all zeros *)
C4_ShownIsResolved ==
    last = "shown" => checkbox_vars = C4_Resolved(frame_states, image_paths, index)

(* the scenario of C5: folder A = frames (1,1,1), (1,1,2); baseline [2,0,...] *)
C5_OneHot == [s \in 1..N |-> IF s = 1 THEN 1 ELSE 0]

C5_Row(frame) ==
    << "1", "1", frame >> \o
    [j \in 1..(2 * N) |-> IF j = 1 THEN "2" ELSE IF j = 2 THEN "1" ELSE "0"]

(* structure 1 was checked on frame 1 and the advance to frame 2 has just
   happened, the Label Store holding nothing else *)
C5_AtFrame2 ==
    /\ image_root = "A"
    /\ preload_df = ReadPreload(PreloadFiles.P1)
    /\ last = "next_moved"
    /\ index = 1
    /\ frame_states = << Entry(<< 1, 1, 1 >>, C5_OneHot) >>

(* C5 as stated: after the advance to frame 2 the CSV holds the rows of both
   frames *)
C5_Original ==
    C5_AtFrame2 =>
        \A frame \in { "1", "2" } :
            \E j \in 1..Len(disk.rows) : disk.rows[j] = C5_Row(frame)

(* C5 amended: after the advance frame 2 shows the carried-forward vector and
   the CSV holds the row of frame 1 only; advancing once more without an edit
   stores frame 2 with that vector and writes both rows *)
C5_Amended ==
    [][ /\ C5_AtFrame2 =>
              /\ checkbox_vars = C5_OneHot
              /\ disk.rows = << C5_Row("1") >>
        /\ (C5_AtFrame2 /\ save_and_next) =>
              /\ frame_states' = << Entry(<< 1, 1, 1 >>, C5_OneHot),
                                    Entry(<< 1, 1, 2 >>, C5_OneHot) >>
              /\ disk'.rows = << C5_Row("1"), C5_Row("2") >> ]_vars

(* the second advance has happened: both rows are on disk *)
C5_Witness ==
    /\ image_root = "A"
    /\ last = "next_stay"
    /\ index = 1
    /\ frame_states = << Entry(<< 1, 1, 1 >>, C5_OneHot), Entry(<< 1, 1, 2 >>, C5_OneHot) >>
    /\ disk.rows = << C5_Row("1"), C5_Row("2") >>

(* the entries of two stores agree on every key but k *)
SameExcept(a, b, k) ==
    \A x \in (Keys(a) \cup Keys(b)) \ { k } :
        Has(a, x) /\ Has(b, x) /\ Get(a, x) = Get(b, x)

(* C6: an advance at index = range_max leaves index and the window unchanged
   and changes the Label Store only by setting the current frame's entry to
   the displayed toggles *)
C6_AdvanceAtEnd ==
    [][ (save_and_next /\ total > 0 /\ index = range_max) =>
           /\ index' = index
           /\ range_min' = range_min
           /\ range_max' = range_max
           /\ Has(frame_states', KeyAt(image_paths, index))
           /\ Get(frame_states', KeyAt(image_paths, index)) = checkbox_vars
           /\ SameExcept(frame_states, frame_states', KeyAt(image_paths, index)) ]_vars

(* an advance at the end of a narrowed window, another frame being stored *)
C6_Witness ==
    /\ last = "next_stay"
    /\ index = range_max
    /\ range_max < total - 1
    /\ Len(frame_states) = 2

(* C7: retreat at index = range_min changes nothing; at index > range_min it
   stores the current frame's values, rewrites the CSV and sets index to
   index - 1 *)
C7_Retreat ==
    [][ (prev_image /\ total > 0) =>
           /\ index = range_min =>
                 UNCHANGED << index, range_min, range_max, frame_states, disk >>
           /\ index > range_min =>
                 /\ Get(frame_states', KeyAt(image_paths, index)) = checkbox_vars
                 /\ CsvReflects(disk', frame_states', preload_df)
                 /\ index' = index - 1 ]_vars

(* C8: a jump to a target outside [0, total) or outside the window changes
   nothing; any other jump sets index to the target and leaves the Label Store
   and the CSV as they were *)
C8_Jump ==
    [][ LET same == UNCHANGED << index, range_min, range_max, frame_states, disk >>
        IN  \A text \in EntryTexts :
               LET target == IntOf[text] - 1
                   rejected == \/ ~IsIntText(text)
                               \/ target < 0 \/ target >= total
                               \/ target < range_min \/ target > range_max
                   effect == IF rejected THEN same
                             ELSE /\ index' = target
                                  /\ UNCHANGED << range_min, range_max, frame_states, disk >>
               IN  effect \/ ~skip_to_index(text) ]_vars

(* a jump went to the second frame; the frame left has no entry and no row *)
C8_Witness ==
    /\ last = "skip_moved"
    /\ index = 1
    /\ ~Has(frame_states, KeyAt(image_paths, 0))
    /\ Has(frame_states, KeyAt(image_paths, 1))
    /\ Len(disk.rows) = 1

(* C9: setRange(newMin, newMax) is accepted exactly when
   0 <= newMin <= newMax < total; rejected, it changes nothing; accepted, the
   window is [newMin, newMax], the index is clamped into it, the Label Store
   and the CSV are unchanged *)
C9_SetRange ==
    [][ LET same == UNCHANGED << index, range_min, range_max, frame_states, disk >>
        IN  \A texts \in RangeTexts :
               (IsIntText(texts[1]) /\ IsIntText(texts[2])) =>
                  LET newMin == IntOf[texts[1]] - 1
                      newMax == IntOf[texts[2]] - 1
                      effect == IF 0 <= newMin /\ newMin <= newMax /\ newMax < total
                                THEN /\ range_min' = newMin
                                     /\ range_max' = newMax
                                     /\ index' = Min(Max(index, newMin), newMax)
                                     /\ UNCHANGED << frame_states, disk >>
                                ELSE same
                  IN  effect \/ ~apply_range(texts[1], texts[2]) ]_vars

(* an accepted range [1, 1] of a two-frame folder, with labels stored *)
C9_Witness ==
    /\ last = "range_applied"
    /\ range_min = 1 /\ range_max = 1 /\ index = 1
    /\ frame_states # << >>

(* C10: reading the current frame's values, the override flag of structure i
   is 1 exactly when its visibility differs from the baseline severity, a
   missing or not-a-number severity counting as 0 *)
C10_Overridden ==
    total > 0 =>
        LET read == get_current_values(index, image_paths, preload_df, checkbox_vars,
                                       frame_states)
        IN  \A i \in 1..N :
               read.overridden_flags[i] = 1 <=>
                  read.vis_vals[i] #
                     BaselineSeverity(preload_df, read.key[1], read.key[2], i)

(* two stores hold the same key -> vector mapping *)
SameMapping(a, b) ==
    /\ Keys(a) = Keys(b)
    /\ \A k \in Keys(a) : Get(a, k) = Get(b, k)

(* C11: a Label Store written by the CSV writer and read back by the
   current-schema branch of the reader is the same key -> vector mapping *)
C11_RoundTrip ==
    (arg.case = "store" /\ result.stage = "read") => SameMapping(result.store, arg.store)

(* a store of two entries inserted out of key order, written with a baseline
   loaded, then read back *)
C11_Witness ==
    /\ arg.case = "store"
    /\ result.stage = "read"
    /\ arg.df.loaded
    /\ Len(arg.store) = 2
    /\ arg.store[1].key = << 1, 1, 2 >>
    /\ arg.store[2].key = SENTINEL
    /\ arg.store[1].state[1] = 1
    /\ Len(result.file.rows) = 2
    /\ SameMapping(result.store, arg.store)

(* C12: files of the current schema, of legacy schema B and of legacy schema C
   that carry the same visibility per key hydrate to identical Label Stores *)
C12_SchemaEquivalence ==
    (arg.case = "schema" /\ result.stage = "read") =>
        \A schema \in Schemas : \A other \in { "0", "1" } :
            load_existing_csv(SchemaFile(schema, arg.store, other)) = result.store

(* a legacy schema B file of two rows, the <s>_overridden cells all 1, was read *)
C12_Witness ==
    /\ arg.case = "schema"
    /\ result.stage = "read"
    /\ arg.file = SchemaFile("overridden", arg.store, "1")
    /\ Len(result.store) = 2
    /\ result.store[1].state[1] = 0
    /\ result.store[2].state[1] = 1

(* the key cells of a row all parse as integers *)
KeyParses(row) ==
    Len(row) >= 3 /\ IsIntText(row[1]) /\ IsIntText(row[2]) /\ IsIntText(row[3])

(* the cell of a row that carries the visibility of structure i *)
ValueCell(header, i) ==
    IF InHeader(header, STRUCTURE_COLUMNS[i] \o "_vis") THEN 3 + 2 * i ELSE 3 + i

(* the vector C13 names for a row: 1 where the value cell is the integer 1, an
   unparsable or missing cell counting as 0 *)
Coerced(header, row) ==
    [i \in 1..N |->
        IF /\ Len(row) >= ValueCell(header, i)
           /\ IsIntText(row[ValueCell(header, i)])
           /\ IntOf[row[ValueCell(header, i)]] = 1
        THEN 1 ELSE 0]

(* C13: hydration skips a row whose key cells do not parse (a blank or short
   row included), coerces an unparsable value cell to 0, and keeps every row
   whose key parses, before and after a bad row *)
C13_NoAbort ==
    (arg.case = "rows" /\ result.stage = "read") =>
        LET rows == arg.file.rows
            good == { r \in 1..Len(rows) : KeyParses(rows[r]) }
        IN  /\ Keys(result.store) = { RowKey(rows[r]) : r \in good }
            /\ \A r \in good :
                  (\A q \in good : q > r => RowKey(rows[q]) # RowKey(rows[r])) =>
                     Get(result.store, RowKey(rows[r])) = Coerced(arg.file.header, rows[r])

(* C20: with a header naming <s>_vis for every structure, the visibility
   hydrated for a structure is the cell under the column named <s>_vis,
   wherever the column sits, whatever the <s>_sev cells hold *)
C20_VisByName ==
    (arg.case = "header" /\ result.stage = "read") => SameMapping(result.store, arg.store)

(* a folder with frames is opened: the dialog was not cancelled and the glob
   found images *)
Opens ==
    \E folder \in Folders : \E existing \in ExistingFiles[folder] \cup { disk } :
        FolderFiles[folder] # { } /\ open_folder(folder, existing)

(* C14 as stated: no operation, a folder open included, removes a key from the
   Label Store *)
C14_Original ==
    [][ Keys(frame_states) \subseteq Keys(frame_states') ]_vars

(* C14 amended: every operation other than a folder open keeps every key of
   the Label Store; a folder open replaces the Label Store by what the
   folder's frame_labels.csv hydrates to, the empty store when there is none *)
C14_Amended ==
    [][ /\ ~(Keys(frame_states) \subseteq Keys(frame_states')) => Opens
        /\ (index' = 0 /\ range_min' = 0 /\ Opens) =>
              frame_states' = IF disk'.exists THEN load_existing_csv(disk') ELSE << >> ]_vars

(* two keys stored by advances, a window set in between *)
C14_Witness ==
    /\ image_root = "A"
    /\ last = "next_stay"
    /\ range_min = 1
    /\ preload_df.loaded
    /\ Keys(frame_states) = { << 1, 1, 1 >>, << 1, 1, 2 >> }
    /\ \A k \in Keys(frame_states) : Len(Get(frame_states, k)) = N

(* C15: after File > Save the key of the displayed frame is in the Label Store
   and in the CSV, with the toggles shown at the time of the Save *)
C15_SaveRecordsCurrent ==
    [][ (save /\ total > 0) =>
           LET key == KeyAt(image_paths, index)
           IN  /\ Has(frame_states', key)
               /\ Get(frame_states', key) = checkbox_vars
               /\ \E j \in 1..Len(disk'.rows) :
                     RowShows(disk'.rows[j], Entry(key, checkbox_vars), preload_df) ]_vars

(* C16: after a baseline source failed to load, every severity lookup
   resolves to all-zero, also for a swallow of a baseline loaded before *)
C16_FailedLoadEmpties ==
    last = "preload_failed" =>
        \A video \in { -1, 1 } : \A swallow \in { -1, 1 } :
           get_swallow_defaults(preload_df, video, swallow) = [i \in 1..N |-> Num(0)]

(* C17: with a dataset open, the Label Store changes only in an advance or a
   retreat, and only at the key of the frame displayed, which gets the
   displayed toggles; jumps, range changes, toggling, Save and baseline
   reselection leave every entry as it was *)
C17_SoleWritePath ==
    [][ (frame_states' # frame_states /\ ~Opens) =>
           /\ save_and_next \/ prev_image
           /\ total > 0
           /\ SameExcept(frame_states, frame_states', KeyAt(image_paths, index))
           /\ Get(frame_states', KeyAt(image_paths, index)) = checkbox_vars ]_vars

(* both frames were stored by advances and retreats; a jump back and a toggle
   later the displayed toggles differ from the stored entry, which is kept *)
C17_Witness ==
    /\ image_root = "A"
    /\ index = 0
    /\ range_min = 0
    /\ range_max = 1
    /\ Keys(frame_states) = { << 1, 1, 1 >>, << 1, 1, 2 >> }
    /\ Get(frame_states, << 1, 1, 1 >>) = [i \in 1..N |-> 1]
    /\ Get(frame_states, << 1, 1, 2 >>) = [i \in 1..N |-> 0]
    /\ checkbox_vars = [i \in 1..N |-> 0]

(* C18: a folder open that finds frame_labels.csv attempts a copy of its
   content before hydrating the Label Store from it, hydrates whether or not
   the copy succeeded and does not write the CSV itself; a later write to a
   CSV that existed at the open comes after that attempt *)
C18_BackupFirst ==
    [][ /\ \A folder \in Folders : \A existing \in ExistingFiles[folder] \cup { disk } :
              LET file == IF folder = image_root THEN disk ELSE existing
              IN  (FolderFiles[folder] # { } /\ open_folder(folder, existing) /\ file.exists) =>
                     /\ backup'.attempted
                     /\ backup'.content = file
                     /\ frame_states' = load_existing_csv(file)
                     /\ disk' = file
        /\ (disk' # disk /\ ~Opens /\ backup.existed) =>
              /\ backup.attempted
              /\ backup.content.exists ]_vars

(* the copy failed, the two rows of the CSV were hydrated all the same, and
   the CSV has been rewritten since *)
C18_Witness ==
    /\ backup.attempted
    /\ ~backup.copied
    /\ Len(backup.content.rows) = 2
    /\ Len(frame_states) = 2
    /\ disk.exists
    /\ disk # backup.content

(* C19: a save during which the computation of a row raises leaves the file
   on disk with its previous content *)
C19_NoTruncation ==
    [][ (save /\ output_csv # "None" /\ persist_all(frame_states, preload_df).raised) =>
           disk' = disk ]_vars

(* C21: in every reachable state every entry of the Label Store is a vector
   of exactly N values, each 0 or 1 *)
C21_EntriesAreVectors ==
    \A i \in 1..Len(frame_states) : frame_states[i].state \in Vectors

(* C22: no two positions of the frame sequence discovered by the folder glob
   share a Label Store key, the sentinel included, so that persisting values
   at one position never alters the vector another position resolves to *)
C22_DistinctKeys ==
    \A p, q \in 1..total :
        p # q => parse_metadata(image_paths[p]) # parse_metadata(image_paths[q])

====
